---------------------------- MODULE Spec2Model ----------------------------
(***************************************************************************)
(* A model of the AI_agent repository: the four sandboxed file operations  *)
(* (functions/get_file_content.py, get_files_info.py,                      *)
(* write_file_content.py, run_python.py), the dispatcher                   *)
(* (functions/call_function.py) and the two drivers of the agent loop      *)
(* (main.py, tui.py).                                                      *)
(*                                                                         *)
(* Strings are sequences of tokens.  A token is a one-character string     *)
(* ("/", ".", "x", "\n") or an atomic fragment of text that no other token *)
(* is a prefix of ("calculator", "AI_agent", a fixed piece of a message),  *)
(* so that the prefix, suffix and substring relations on token sequences   *)
(* are those of the Python strings they stand for.                         *)
(***************************************************************************)
EXTENDS Naturals, Sequences, FiniteSets, TLC

VARIABLES
    cwd,        \* the process's current directory (os.getcwd())
    fs,         \* the filesystem: absolute normalized path -> node
    last,       \* the last call of an operation or of call_function, with its result
    calls,      \* how many calls were made outside the agent loop
    driver,     \* "cli" (main.py) or "tui" (tui.py), "none" outside the loop
    pc,         \* position of the agent loop
    messages,   \* the conversation history
    iteration,  \* the for-loop variable of the agent loop
    pending,    \* response.function_calls of the round being executed
    idx,        \* index into pending of the next request to dispatch
    log,        \* what was shown to the operator (kinds of output), in order
    stats       \* counters: engine calls and dispatches of the current prompt, prompts, free choices

vars == <<cwd, fs, last, calls, driver, pc, messages, iteration, pending, idx, log, stats>>

loopVars == <<driver, pc, messages, iteration, pending, idx, log, stats>>

----------------------------------------------------------------------------
(* Bounds of the model *)

\* longest requested path, in tokens, of the path-guard specification
MaxPathLen == 4

\* longest content, in tokens, handed to write_file
MaxContentLen == 2

\* engine responses and environment failures that are chosen freely in one
\* behaviour of the agent loop; after them the engine repeats its last
\* response and the environment does not fail
MaxChoices == 2

\* prompts submitted to the TUI in one behaviour
MaxPrompts == 2
MaxRunPathLen == 3
MaxReadPathLen == 3

----------------------------------------------------------------------------
(* Generic helpers on token sequences *)

SeqsUpTo(S, n) == UNION {[1..k -> S] : k \in 0..n}

startswith(s, prefix) ==
    Len(prefix) <= Len(s) /\ SubSeq(s, 1, Len(prefix)) = prefix

endswith(s, suffix) ==
    Len(suffix) <= Len(s) /\ SubSeq(s, Len(s) - Len(suffix) + 1, Len(s)) = suffix

contains(s, sub) ==
    \E i \in 1..(Len(s) + 1) :
        i + Len(sub) - 1 <= Len(s) /\ SubSeq(s, i, i + Len(sub) - 1) = sub

RECURSIVE SplitFrom(_, _, _, _)
SplitFrom(s, sep, i, cur) ==
    IF i > Len(s) THEN <<cur>>
    ELSE IF s[i] = sep THEN <<cur>> \o SplitFrom(s, sep, i + 1, <<>>)
    ELSE SplitFrom(s, sep, i + 1, Append(cur, s[i]))

\* str.split(sep): the pieces between separators, empty pieces kept
split(s, sep) == SplitFrom(s, sep, 1, <<>>)

RECURSIVE JoinFrom(_, _, _)
JoinFrom(parts, sep, i) ==
    IF i > Len(parts) THEN <<>>
    ELSE IF i = Len(parts) THEN parts[i]
    ELSE parts[i] \o <<sep>> \o JoinFrom(parts, sep, i + 1)

\* sep.join(parts)
join_str(parts, sep) == JoinFrom(parts, sep, 1)

----------------------------------------------------------------------------
(* os.path, as the operations use it *)

isabs(p) == Len(p) > 0 /\ p[1] = "/"

\* os.path.join(a, p): an absolute p replaces a; otherwise one separator
\* goes between them unless a is empty or already ends with one
join(a, p) ==
    IF isabs(p) THEN p
    ELSE IF a = <<>> \/ a[Len(a)] = "/" THEN a \o p
    ELSE a \o <<"/">> \o p

RECURSIVE NormComps(_, _, _, _)
NormComps(comps, i, acc, absolute) ==
    IF i > Len(comps) THEN acc
    ELSE LET comp == comps[i] IN
         IF comp = <<>> \/ comp = <<".">> THEN NormComps(comps, i + 1, acc, absolute)
         ELSE IF \/ comp # <<".", ".">>
                 \/ (~absolute /\ acc = <<>>)
                 \/ (acc # <<>> /\ acc[Len(acc)] = <<".", ".">>)
              THEN NormComps(comps, i + 1, Append(acc, comp), absolute)
         ELSE IF acc # <<>>
              THEN NormComps(comps, i + 1, SubSeq(acc, 1, Len(acc) - 1), absolute)
         ELSE NormComps(comps, i + 1, acc, absolute)

\* os.path.normpath (posixpath): "" -> ".", exactly two leading slashes are
\* kept, empty and "." components dropped, ".." pops a component
normpath(p) ==
    IF p = <<>> THEN <<".">>
    ELSE LET initial_slashes ==
                 IF ~isabs(p) THEN 0
                 ELSE IF startswith(p, <<"/", "/">>) /\ ~startswith(p, <<"/", "/", "/">>)
                      THEN 2 ELSE 1
             body == join_str(NormComps(split(p, "/"), 1, <<>>, initial_slashes > 0), "/")
             path == [k \in 1..initial_slashes |-> "/"] \o body
         IN IF path = <<>> THEN <<".">> ELSE path

\* os.path.abspath(p) in current directory c
abspath(c, p) == normpath(IF isabs(p) THEN p ELSE join(c, p))

\* os.path.dirname
dirname(p) ==
    LET slashes == {i \in 1..Len(p) : p[i] = "/"} IN
    IF slashes = {} THEN <<>>
    ELSE LET i == CHOOSE k \in slashes : \A j \in slashes : j <= k
             head == SubSeq(p, 1, i)
         IN IF \A j \in 1..Len(head) : head[j] = "/" THEN head
            ELSE SubSeq(p, 1, i - 1)

----------------------------------------------------------------------------
(* The filesystem: a function from absolute normalized paths to nodes.     *)
(* A node is a directory or a regular file with its content.               *)

DirNode == [kind |-> "dir", content |-> <<>>]
FileNode(c) == [kind |-> "file", content |-> c]

exists(f, p) == p \in DOMAIN f
isdir(f, p) == p \in DOMAIN f /\ f[p].kind = "dir"
isfile(f, p) == p \in DOMAIN f /\ f[p].kind = "file"

\* the proper ancestors of p and p itself, "/" excluded
RECURSIVE Ancestors(_)
Ancestors(p) ==
    IF p = <<>> \/ (\A j \in 1..Len(p) : p[j] = "/") THEN {}
    ELSE {p} \cup Ancestors(dirname(p))

\* os.makedirs(d, exist_ok=True): fails, creating nothing, when d or one of
\* its ancestors is a regular file; otherwise every missing ancestor becomes
\* a directory
makedirs_ok(f, d) == \A a \in Ancestors(d) : ~isfile(f, a)
makedirs(f, d) ==
    [p \in DOMAIN f \cup Ancestors(d) |-> IF p \in DOMAIN f THEN f[p] ELSE DirNode]

basename(p) == LET parts == split(p, "/") IN parts[Len(parts)]

RECURSIVE SetToSeq(_)
SetToSeq(S) ==
    IF S = {} THEN <<>>
    ELSE LET x == CHOOSE y \in S : TRUE IN <<x>> \o SetToSeq(S \ {x})

\* os.listdir(p): the names of the direct children, in the order the
\* filesystem gives them (a fixed order for a given directory state)
listdir(f, p) == SetToSeq({basename(q) : q \in {r \in DOMAIN f : r # p /\ dirname(r) = p}})

\* os.path.getsize: the length of a file, the block size of a directory
getsize(f, p) == IF f[p].kind = "dir" THEN "4096" ELSE ToString(Len(f[p].content))

\* the first n tokens of s: file.read(n)
Take(s, n) == SubSeq(s, 1, IF Len(s) < n THEN Len(s) ELSE n)

\* config.MAX_FILE_CHAR_LENGTH (config.py is not among the sources; the value
\* is scaled to the content lengths of the model)
MAX_FILE_CHAR_LENGTH == 3

----------------------------------------------------------------------------
(* Texts of the results *)

OutsideSuffix == "\" as it is outside the permitted working directory"

ErrReadOutside(file_path) == <<"Error:", " Cannot read \"">> \o file_path \o <<OutsideSuffix>>
ErrListOutside(directory) == <<"Error:", " Cannot list \"">> \o directory \o <<OutsideSuffix>>
ErrWriteOutside(file_path) == <<"Error:", " Cannot write to \"">> \o file_path \o <<OutsideSuffix>>
ErrRunOutside(file_path) == <<"Error:", " Cannot execute \"">> \o file_path \o <<OutsideSuffix>>
ErrNotRegular(file_path) ==
    <<"Error:", " File not found or is not a regular file: \"">> \o file_path \o <<"\"">>
ErrNotDirectory(directory) == <<"Error:", " \"">> \o directory \o <<"\" is not a directory">>
ErrAccessDenied == <<"Error:", " Access denied - not within permitted project directory">>
ErrException == <<"Error:", " ", "<exception text>">>
ErrCreatingDirectory == <<"Error creating directory: ", "<exception text>">>
ErrIsDirectory(file_path) == <<"Error:", " \"">> \o file_path \o <<"\" is a directory, not a file">>
ErrPermissionDenied(file_path) ==
    <<"Error:", " Permission denied writing to '">> \o file_path \o <<"'">>
ErrFileSystem(file_path) ==
    <<"Error:", " File system error writing to '">> \o file_path \o <<"': ", "<exception text>">>
ErrFileNotFound(file_path) == <<"Error:", " File \"">> \o file_path \o <<"\" not found.">>
ErrNotPython(file_path) == <<"Error:", " \"">> \o file_path \o <<"\" is not a Python file.">>
ErrTimeout == <<"Error:", " Python file execution timed out after 30 seconds">>
ErrExecuting == <<"Error executing Python file: ", "<exception text>">>
NoOutput == <<"No output produced.">>

----------------------------------------------------------------------------
(* The containment check, shared by the four operations *)

\* abs_working_dir = os.path.abspath(working_directory)
AbsWorkingDir(c, working_directory) == abspath(c, working_directory)

\* os.path.abspath(os.path.join(working_directory, path))
TargetFullPath(c, working_directory, path) == abspath(c, join(working_directory, path))

\* target_full_path.startswith(abs_working_dir): admitted iff this holds
PathAdmitted(c, working_directory, path) ==
    startswith(TargetFullPath(c, working_directory, path), AbsWorkingDir(c, working_directory))

----------------------------------------------------------------------------
(* get_file_content.  io: "ok", or the way the filesystem fails in this call *)

\* get_file_content answering a file longer than the limit with an error
get_file_content_refusing_long(f, c, io, working_directory, file_path) ==
    LET target_full_path == TargetFullPath(c, working_directory, file_path) IN
    IF ~PathAdmitted(c, working_directory, file_path)
    THEN [result |-> ErrReadOutside(file_path), fs |-> f]
    ELSE IF ~isfile(f, target_full_path)
    THEN [result |-> ErrNotRegular(file_path), fs |-> f]
    ELSE IF io \in {"fail_open", "fail_read"}
    THEN [result |-> ErrException, fs |-> f]
    ELSE IF Len(f[target_full_path].content) > MAX_FILE_CHAR_LENGTH
    THEN [result |-> ErrException, fs |-> f]
    ELSE [result |-> f[target_full_path].content, fs |-> f]

\* get_file_content without the os.path.isfile test: open() is tried on
\* whatever the path names
get_file_content_unguarded(f, c, io, working_directory, file_path) ==
    LET target_full_path == TargetFullPath(c, working_directory, file_path) IN
    IF ~PathAdmitted(c, working_directory, file_path)
    THEN [result |-> ErrReadOutside(file_path), fs |-> f]
    ELSE IF ~isfile(f, target_full_path) \/ io \in {"fail_open", "fail_read"}
    THEN [result |-> ErrException, fs |-> f]
    ELSE [result |-> Take(f[target_full_path].content, MAX_FILE_CHAR_LENGTH), fs |-> f]

get_file_content(f, c, io, working_directory, file_path) ==
    LET target_full_path == TargetFullPath(c, working_directory, file_path) IN
    IF ~PathAdmitted(c, working_directory, file_path)
    THEN [result |-> ErrReadOutside(file_path), fs |-> f]
    ELSE IF ~isfile(f, target_full_path)
    THEN [result |-> ErrNotRegular(file_path), fs |-> f]
    ELSE IF io \in {"fail_open", "fail_read"}
    THEN [result |-> ErrException, fs |-> f]
    ELSE [result |-> Take(f[target_full_path].content, MAX_FILE_CHAR_LENGTH), fs |-> f]

----------------------------------------------------------------------------
(* get_files_info *)

\* the line of one child of the listed directory
ListingLine(f, target_full_path, file_name) ==
    LET file_path == join(target_full_path, file_name) IN
    <<"- ">> \o file_name
        \o <<": file_size=", getsize(f, file_path), " bytes, is_dir=",
             IF isdir(f, file_path) THEN "True" ELSE "False", "\n">>

RECURSIVE ListingFrom(_, _, _, _)
ListingFrom(f, target_full_path, dir_contents, i) ==
    IF i > Len(dir_contents) THEN <<>>
    ELSE ListingLine(f, target_full_path, dir_contents[i])
             \o ListingFrom(f, target_full_path, dir_contents, i + 1)

get_files_info(f, c, io, working_directory, directory) ==
    LET abs_working_dir == AbsWorkingDir(c, working_directory)
        target_full_path == TargetFullPath(c, working_directory, directory)
    IN
    IF ~PathAdmitted(c, working_directory, directory)
    THEN [result |-> ErrListOutside(directory), fs |-> f]
    ELSE IF ~isdir(f, target_full_path)
    THEN [result |-> ErrNotDirectory(directory), fs |-> f]
    ELSE IF contains(abs_working_dir, <<"/", "AI_agent">>)
            /\ startswith(target_full_path, abs_working_dir)
    THEN IF io \in {"fail_open", "fail_read"}
         THEN [result |-> ErrException, fs |-> f]
         ELSE [result |-> ListingFrom(f, target_full_path, listdir(f, target_full_path), 1),
               fs |-> f]
    ELSE [result |-> ErrAccessDenied, fs |-> f]

----------------------------------------------------------------------------
(* write_file, with its line-by-line attribution *)

Whitespace == {" ", "\n"}

\* s.strip() is not empty
HasText(s) == \E i \in 1..Len(s) : s[i] \notin Whitespace

\* str.splitlines(): the lines without their line ends; a final line end
\* opens no further line
splitlines(s) ==
    LET parts == split(s, "\n") IN
    IF parts[Len(parts)] = <<>> THEN SubSeq(parts, 1, Len(parts) - 1) ELSE parts

\* get_comment_style(file_path): the comment opener and, for the styles
\* that have one, the closer
get_comment_style(file_path) ==
    IF endswith(file_path, <<".", "py">>) THEN <<"# ", <<>>>>
    ELSE IF \E e \in {"js", "ts", "java", "c", "cpp", "cs"} : endswith(file_path, <<".", e>>)
    THEN <<"// ", <<>>>>
    ELSE IF \E e \in {"html", "xml"} : endswith(file_path, <<".", e>>)
    THEN <<"<!-- ", <<" -->">>>>
    ELSE IF endswith(file_path, <<".", "md">>) THEN <<"<!-- ", <<" -->">>>>
    ELSE IF \E e \in {"css", "scss"} : endswith(file_path, <<".", e>>)
    THEN <<"/* ", <<" */">>>>
    ELSE <<"# ", <<>>>>

\* the texts add_line_attribution inserts (the timestamp is the time of the
\* call)
ai_comment(file_path) ==
    <<" ", get_comment_style(file_path)[1], "Modified by AI Agent on <timestamp>">>
        \o get_comment_style(file_path)[2]
file_header(file_path) ==
    <<get_comment_style(file_path)[1], "File created by AI Agent on <timestamp>">>
        \o get_comment_style(file_path)[2]

RECURSIVE AttributeLines(_, _, _, _)
AttributeLines(original_lines, new_lines, comment, i) ==
    IF i > Len(new_lines) THEN <<>>
    ELSE LET line == new_lines[i]
             changed == i > Len(original_lines) \/ line # original_lines[i]
         IN <<IF changed /\ HasText(line) THEN line \o comment ELSE line>>
                \o AttributeLines(original_lines, new_lines, comment, i + 1)

\* add_line_attribution(original_content, new_content, file_path, timestamp)
add_line_attribution(original_content, new_content, file_path, is_new_file) ==
    IF is_new_file
    THEN IF HasText(new_content)
         THEN file_header(file_path) \o <<"\n">> \o new_content
         ELSE file_header(file_path) \o <<"\n">>
    ELSE LET original_lines ==
                 IF original_content # <<>> THEN splitlines(original_content) ELSE <<>>
         IN join_str(AttributeLines(original_lines, splitlines(new_content),
                                    ai_comment(file_path), 1), "\n")

\* lengths are counted in tokens
WriteSuccess(file_path, is_new_file, original_content, final_content) ==
    LET original_line_count ==
            IF original_content # <<>> THEN Len(splitlines(original_content)) ELSE 0
        new_line_count == Len(splitlines(final_content))
        diff == IF new_line_count >= original_line_count
                THEN new_line_count - original_line_count
                ELSE original_line_count - new_line_count
    IN <<"Successfully ", IF is_new_file THEN "created" ELSE "modified", " \"">>
           \o file_path
           \o <<"\" with line-by-line AI attribution (", ToString(Len(final_content)),
                " characters, ", ToString(new_line_count), " lines, ", ToString(diff),
                " lines changed)">>

\* the filesystem after file_full_path was written with text
Put(f, file_full_path, text) ==
    [p \in DOMAIN f \cup {file_full_path} |->
        IF p = file_full_path THEN FileNode(text) ELSE f[p]]

\* write_file from "with open(file_full_path, 'w')" on: the attributed
\* content is stored and the summary returned
write_file_store(f, file_path, file_full_path, is_new_file, original_content, final_content) ==
    [result |-> WriteSuccess(file_path, is_new_file, original_content, final_content),
     fs |-> Put(f, file_full_path, final_content)]

\* write_file from the is-a-directory check on, in the filesystem f the
\* directory creation left: the original content is read (an unreadable
\* original counts as empty), the attribution added, the file opened for
\* writing and written
write_file_attributed(f, io, file_path, content, file_full_path, is_new_file, original_content) ==
    IF isdir(f, file_full_path)
    THEN [result |-> ErrIsDirectory(file_path), fs |-> f]
    ELSE IF io = "fail_open"
    THEN [result |-> ErrPermissionDenied(file_path), fs |-> f]
    ELSE IF io = "fail_write"
    THEN [result |-> ErrFileSystem(file_path), fs |-> Put(f, file_full_path, <<>>)]
    ELSE write_file_store(f, file_path, file_full_path, is_new_file, original_content,
             add_line_attribution(original_content, content, file_path, is_new_file))

\* write_file after the directory creation
write_file_in(f, io, file_path, content, file_full_path) ==
    write_file_attributed(f, io, file_path, content, file_full_path,
        ~exists(f, file_full_path),
        IF ~exists(f, file_full_path) \/ io = "fail_read"
        THEN <<>> ELSE f[file_full_path].content)

\* write_file for an admitted path as it would be without the os.makedirs
\* call: open() of a path whose parent directory is missing fails
write_file_without_makedirs(f, io, file_path, content, file_full_path) ==
    IF ~exists(f, file_full_path) /\ ~isdir(f, dirname(file_full_path))
    THEN [result |-> ErrFileSystem(file_path), fs |-> f]
    ELSE write_file_in(f, io, file_path, content, file_full_path)

\* write_file for an admitted path: os.makedirs of the parent directory
\* when the path does not exist
write_file_admitted(f, io, file_path, content, file_full_path) ==
    IF /\ ~exists(f, file_full_path)
       /\ (~makedirs_ok(f, dirname(file_full_path)) \/ io = "fail_makedirs")
    THEN [result |-> ErrCreatingDirectory, fs |-> f]
    ELSE write_file_in(IF ~exists(f, file_full_path)
                       THEN makedirs(f, dirname(file_full_path)) ELSE f,
                       io, file_path, content, file_full_path)

write_file(f, c, io, working_directory, file_path, content) ==
    IF ~PathAdmitted(c, working_directory, file_path)
    THEN [result |-> ErrWriteOutside(file_path), fs |-> f]
    ELSE write_file_admitted(f, io, file_path, content,
                             TargetFullPath(c, working_directory, file_path))

----------------------------------------------------------------------------
(* run_python_file.  proc is what subprocess.run does in this call: the    *)
(* script completes with its stdout, stderr and return code, the 30 s      *)
(* timeout expires, or the spawn raises.  What the script itself does to   *)
(* the filesystem is outside the model.                                    *)

ProcOutcomes ==
    [kind : {"completed"}, stdout : {<<>>, <<"o">>}, stderr : {<<>>, <<"e">>},
     returncode : {0, 1}]
    \cup {[kind |-> k, stdout |-> <<>>, stderr |-> <<>>, returncode |-> 0] :
             k \in {"timeout", "exception", "undecodable"}}

NoProc == [kind |-> "completed", stdout |-> <<>>, stderr |-> <<>>, returncode |-> 0]

\* an output list with the STDERR section before the STDOUT section
ProcessOutputStderrFirst(proc) ==
    LET output ==
            (IF proc.stderr # <<>> THEN <<<<"STDERR:\n">> \o proc.stderr>> ELSE <<>>)
         \o (IF proc.stdout # <<>> THEN <<<<"STDOUT:\n">> \o proc.stdout>> ELSE <<>>)
         \o (IF proc.returncode # 0
             THEN <<<<"Process exited with code ", ToString(proc.returncode)>>>> ELSE <<>>)
    IN IF output # <<>> THEN join_str(output, "\n") ELSE NoOutput

\* an output list that reports a non-zero exit code as an error
ProcessOutputFailingOnExit(proc) ==
    LET output ==
            (IF proc.stdout # <<>> THEN <<<<"STDOUT:\n">> \o proc.stdout>> ELSE <<>>)
         \o (IF proc.stderr # <<>> THEN <<<<"STDERR:\n">> \o proc.stderr>> ELSE <<>>)
    IN IF proc.returncode # 0
       THEN <<"Error:", " Process exited with code ", ToString(proc.returncode)>>
       ELSE IF output # <<>> THEN join_str(output, "\n") ELSE NoOutput

\* the output list of run_python_file, joined by "\n"
ProcessOutput(proc) ==
    LET output ==
            (IF proc.stdout # <<>> THEN <<<<"STDOUT:\n">> \o proc.stdout>> ELSE <<>>)
         \o (IF proc.stderr # <<>> THEN <<<<"STDERR:\n">> \o proc.stderr>> ELSE <<>>)
         \o (IF proc.returncode # 0
             THEN <<<<"Process exited with code ", ToString(proc.returncode)>>>> ELSE <<>>)
    IN IF output # <<>> THEN join_str(output, "\n") ELSE NoOutput

\* a child process left alone when the timeout expires (Popen.communicate
\* with a timeout, without kill)
ChildAfterWithoutKill(proc) ==
    CASE proc.kind = "completed" -> "exited"
      [] proc.kind = "timeout" -> "running"
      [] proc.kind = "undecodable" -> "killed"
      [] proc.kind = "exception" -> "none"

\* the child process when subprocess.run is over: it has exited by itself,
\* or subprocess.run has killed and reaped it before raising TimeoutExpired
\* or the error of decoding its output (text=True), or it was never started
ChildAfter(proc) ==
    CASE proc.kind = "completed" -> "exited"
      [] proc.kind = "timeout" -> "killed"
      [] proc.kind = "undecodable" -> "killed"
      [] proc.kind = "exception" -> "none"

\* the result of run_python_file once the process was asked for
Ran(f, proc, result) ==
    [result |-> result, fs |-> f, spawned |-> proc.kind # "exception",
     child |-> ChildAfter(proc)]

\* the result of run_python_file when it returns before subprocess.run
NotRun(f, result) == [result |-> result, fs |-> f, spawned |-> FALSE, child |-> "none"]

\* run_python_file without the test of the extension: whatever exists is
\* given to python3
run_python_file_any_extension(f, c, proc, working_directory, file_path) ==
    LET file_full_path == TargetFullPath(c, working_directory, file_path) IN
    IF ~PathAdmitted(c, working_directory, file_path)
    THEN NotRun(f, ErrRunOutside(file_path))
    ELSE IF ~exists(f, file_full_path)
    THEN NotRun(f, ErrFileNotFound(file_path))
    ELSE IF proc.kind = "timeout"
    THEN Ran(f, proc, ErrTimeout)
    ELSE IF proc.kind \in {"exception", "undecodable"}
    THEN Ran(f, proc, ErrExecuting)
    ELSE Ran(f, proc, ProcessOutput(proc))

run_python_file(f, c, proc, working_directory, file_path) ==
    LET file_full_path == TargetFullPath(c, working_directory, file_path) IN
    IF ~PathAdmitted(c, working_directory, file_path)
    THEN NotRun(f, ErrRunOutside(file_path))
    ELSE IF ~exists(f, file_full_path)
    THEN NotRun(f, ErrFileNotFound(file_path))
    ELSE IF ~endswith(file_full_path, <<".", "py">>)
    THEN NotRun(f, ErrNotPython(file_path))
    ELSE IF proc.kind = "timeout"
    THEN Ran(f, proc, ErrTimeout)
    ELSE IF proc.kind \in {"exception", "undecodable"}
    THEN Ran(f, proc, ErrExecuting)
    ELSE Ran(f, proc, ProcessOutput(proc))

----------------------------------------------------------------------------
(* Conversation turns (types.Content) and tool requests (FunctionCall) *)

\* a request: its name and its argument mapping (args.none: args is None)
Request(name, kv) == [name |-> name, args |-> [none |-> FALSE, kv |-> kv]]
RequestNoArgs(name) == [name |-> name, args |-> [none |-> TRUE, kv |-> <<>>]]

NoResponse == [present |-> FALSE, name |-> "", key |-> "", text |-> <<>>]

\* types.Content(role="user", parts=[types.Part(text=...)])
UserTurn(text) ==
    [role |-> "user", text |-> text, function_calls |-> <<>>, function_response |-> NoResponse]

\* candidate.content of a response: its text and its function calls
ModelTurn(text, function_calls) ==
    [role |-> "model", text |-> text, function_calls |-> function_calls,
     function_response |-> NoResponse]

\* types.Content(role="tool", parts=[types.Part.from_function_response(name, response)])
ToolTurn(name, key, text) ==
    [role |-> "tool", text |-> <<>>, function_calls |-> <<>>,
     function_response |-> [present |-> TRUE, name |-> name, key |-> key, text |-> text]]

----------------------------------------------------------------------------
(* call_function *)

\* the working directory call_function passes: "./calculator"
DispatchWorkingDir == <<".", "/", "calculator">>

\* the registry of call_function
functions == {"get_file_content", "get_files_info", "write_file", "run_python_file"}

\* the keyword parameters of each registered function: those without a
\* default, and all of them
RequiredParams(name) ==
    CASE name = "get_file_content" -> {"working_directory", "file_path"}
      [] name = "get_files_info" -> {"working_directory"}
      [] name = "write_file" -> {"working_directory", "file_path", "content"}
      [] name = "run_python_file" -> {"working_directory", "file_path"}
AllParams(name) ==
    CASE name = "get_file_content" -> {"working_directory", "file_path"}
      [] name = "get_files_info" -> {"working_directory", "directory"}
      [] name = "write_file" -> {"working_directory", "file_path", "content"}
      [] name = "run_python_file" -> {"working_directory", "file_path", "args"}

\* a dispatcher that keeps a working_directory the request brings along
\* (args_copy.setdefault instead of the assignment)
InjectWorkingDirectoryUnlessGiven(kv) ==
    [k \in DOMAIN kv \cup {"working_directory"} |->
        IF k \in DOMAIN kv THEN kv[k] ELSE DispatchWorkingDir]

\* args_copy["working_directory"] = "./calculator"
InjectWorkingDirectory(kv) ==
    [k \in DOMAIN kv \cup {"working_directory"} |->
        IF k = "working_directory" THEN DispatchWorkingDir ELSE kv[k]]

\* a dispatcher that assigns the working directory in the mapping of the
\* request itself (args_copy = function_call_part.args, without copy())
ObjectsAfterDispatchWithoutCopy(kv) ==
    [request |-> InjectWorkingDirectory(kv), args_copy |-> InjectWorkingDirectory(kv)]

\* the two mappings after "args_copy = function_call_part.args.copy()" and
\* the assignment of the working directory: copy() makes a mapping of its
\* own with the same keys and values, and the assignment changes that one
ObjectsAfterDispatch(kv) ==
    [[request |-> kv, args_copy |-> kv] EXCEPT !.args_copy = InjectWorkingDirectory(@)]

\* the request as it is when call_function is over: untouched when the name
\* is unknown or args.copy() raises
RequestAfter(function_call_part) ==
    IF function_call_part.name \notin functions \/ function_call_part.args.none
    THEN function_call_part
    ELSE [function_call_part EXCEPT !.args.kv = ObjectsAfterDispatch(@).request]

\* selected_func(**args_copy) binds: no parameter without a default is
\* missing and no keyword is unknown to the function
Binds(name, args_copy) ==
    RequiredParams(name) \subseteq DOMAIN args_copy /\ DOMAIN args_copy \subseteq AllParams(name)

\* selected_func(**args_copy), for arguments that bind
Apply(f, c, io, proc, name, a) ==
    CASE name = "get_file_content" ->
             get_file_content(f, c, io, a["working_directory"], a["file_path"])
      [] name = "get_files_info" ->
             get_files_info(f, c, io, a["working_directory"],
                            IF "directory" \in DOMAIN a THEN a["directory"] ELSE <<".">>)
      [] name = "write_file" ->
             write_file(f, c, io, a["working_directory"], a["file_path"], a["content"])
      [] name = "run_python_file" ->
             run_python_file(f, c, proc, a["working_directory"], a["file_path"])

\* the turn call_function builds from what the function returned:
\* from_function_response(name, {"result": function_result})
ResultTurn(name, out) ==
    [raised |-> FALSE, executed |-> TRUE, fs |-> out.fs,
     turn |-> ToolTurn(name, "result", out.result)]

\* call_function raises: nothing has run
Raises(f) == [raised |-> TRUE, executed |-> FALSE, fs |-> f, turn |-> UserTurn(<<>>)]

\* a dispatcher that copies the arguments before it looks the name up, and
\* so raises for an unknown name whose args is None
call_function_copying_first(f, c, io, proc, function_call_part) ==
    IF function_call_part.args.none
    THEN Raises(f)
    ELSE IF function_call_part.name \notin functions
    THEN [raised |-> FALSE, executed |-> FALSE, fs |-> f,
          turn |-> ToolTurn(function_call_part.name, "error",
                            <<"Unknown function: ", function_call_part.name>>)]
    ELSE IF ~Binds(function_call_part.name, InjectWorkingDirectory(function_call_part.args.kv))
    THEN Raises(f)
    ELSE ResultTurn(function_call_part.name,
                    Apply(f, c, io, proc, function_call_part.name,
                          InjectWorkingDirectory(function_call_part.args.kv)))

\* call_function(function_call_part): the turn it returns, or raised = TRUE
\* when it raises (args.copy() of None, or a call that does not bind)
call_function(f, c, io, proc, function_call_part) ==
    IF function_call_part.name \notin functions
    THEN [raised |-> FALSE, executed |-> FALSE, fs |-> f,
          turn |-> ToolTurn(function_call_part.name, "error",
                            <<"Unknown function: ", function_call_part.name>>)]
    ELSE IF function_call_part.args.none
    THEN Raises(f)
    ELSE IF ~Binds(function_call_part.name, InjectWorkingDirectory(function_call_part.args.kv))
    THEN Raises(f)
    ELSE ResultTurn(function_call_part.name,
                    Apply(f, c, io, proc, function_call_part.name,
                          InjectWorkingDirectory(function_call_part.args.kv)))

----------------------------------------------------------------------------
(* The environment the operations run in *)

\* the directories the program is started in: one inside a checkout named
\* AI_agent, one that is not
Cwds == {<<"/", "AI_agent">>, <<"/">>}

\* the working directory the tests pass ("calculator")
TestWorkingDir == <<"calculator">>

\* the ways the filesystem may fail in one call
IoOutcomes == {"ok", "fail_makedirs", "fail_open", "fail_read", "fail_write"}

\* The filesystem at the start: the root <cwd>/calculator with a file f of
\* the given content, a script f.py and a directory 2 holding a file; beside
\* the root a directory calculator2, whose name merely extends the root's,
\* holding a file f
InitFs(c, content_of_f) ==
    LET root == abspath(c, DispatchWorkingDir)
        sibling == root \o <<"2">>
        dirs == {<<"/">>} \cup Ancestors(root) \cup {root \o <<"/", "2">>, sibling}
        files == (root \o <<"/", "f">>) :> content_of_f
              @@ (root \o <<"/", "f", ".", "py">>) :> <<"x">>
              @@ (root \o <<"/", "2", "/", "f">>) :> <<"y">>
              @@ (sibling \o <<"/", "f">>) :> <<"y", "y">>
    IN [p \in dirs \cup DOMAIN files |->
           IF p \in dirs THEN DirNode ELSE FileNode(files[p])]

\* the contents the file f starts with
InitContents == {<<"x", "\n", "y", "\n">>, <<"x">>, <<>>}

\* what the environment may do in one call of the named function: the way
\* the filesystem fails, and for run_python_file what the process does
Envs(name) ==
    IF name = "run_python_file" THEN {<<"ok", proc>> : proc \in ProcOutcomes}
    ELSE IF name \in functions THEN {<<io, NoProc>> : io \in IoOutcomes}
    ELSE {<<"ok", NoProc>>}

NoRequest == RequestNoArgs("")
NoTurn == UserTurn(<<>>)

\* no write_file request came before
NoWrite == [done |-> FALSE, result |-> <<>>, before |-> <<>>]

NoCall ==
    [op |-> "none", working_directory |-> <<>>, path |-> <<>>, content |-> <<>>,
     result |-> <<>>, before |-> <<>>, after |-> <<>>, req |-> NoRequest,
     raised |-> FALSE, executed |-> FALSE, turn |-> NoTurn, written |-> NoWrite,
     env |-> <<"ok", NoProc>>, spawned |-> FALSE, child |-> "none",
     req_after |-> NoRequest]

\* the record of a direct call of an operation in environment env: what the
\* filesystem and the subprocess did in the call
Called(op, working_directory, path, content, env, out, before) ==
    [op |-> op, working_directory |-> working_directory, path |-> path,
     content |-> content, result |-> out.result, before |-> before, after |-> out.fs,
     req |-> NoRequest, raised |-> FALSE, executed |-> TRUE, turn |-> NoTurn,
     written |-> NoWrite, env |-> env,
     spawned |-> IF op = "run_python_file" THEN out.spawned ELSE FALSE,
     child |-> IF op = "run_python_file" THEN out.child ELSE "none",
     req_after |-> NoRequest]

\* the record of a call of call_function
Dispatched(req, env, out, before) ==
    [op |-> "call_function", working_directory |-> DispatchWorkingDir,
     path |-> <<>>, content |-> <<>>,
     result |-> out.turn.function_response.text, before |-> before, after |-> out.fs,
     req |-> req, raised |-> out.raised, executed |-> out.executed, turn |-> out.turn,
     written |-> NoWrite, env |-> env, spawned |-> FALSE, child |-> "none",
     req_after |-> RequestAfter(req)]

\* the call is recorded and its effect on the filesystem takes place
Record(call) ==
    /\ last' = call
    /\ fs' = call.after

\* engine calls and dispatches of the current prompt, prompts submitted,
\* free choices made, and whether the current round was chosen freely
NoStats == [engine_calls |-> 0, dispatches |-> 0, prompts |-> 0, choices |-> 0, free |-> FALSE]

NoLoop ==
    /\ driver = "none"
    /\ pc = "none"
    /\ messages = <<>>
    /\ iteration = 0
    /\ pending = <<>>
    /\ idx = 0
    /\ log = <<>>
    /\ stats = NoStats

----------------------------------------------------------------------------
(* SpecPath: each operation called once, directly (as tests.py does), with *)
(* every path of at most MaxPathLen tokens.                                *)

PathAlphabet == {"/", ".", "calculator", "2", "f"}
ReqPaths == SeqsUpTo(PathAlphabet, MaxPathLen)
WorkingDirs == {DispatchWorkingDir, TestWorkingDir}

InitPath ==
    /\ cwd \in Cwds
    /\ fs = InitFs(cwd, <<"x", "\n", "y", "\n">>)
    /\ last = NoCall
    /\ calls = 0
    /\ NoLoop

DirectGetFileContent ==
    /\ calls = 0
    /\ \E wd \in WorkingDirs, p \in ReqPaths, io \in IoOutcomes :
          Record(Called("get_file_content", wd, p, <<>>, <<io, NoProc>>,
                        get_file_content(fs, cwd, io, wd, p), fs))
    /\ calls' = calls + 1
    /\ UNCHANGED <<cwd, loopVars>>

DirectGetFilesInfo ==
    /\ calls = 0
    /\ \E wd \in WorkingDirs, p \in ReqPaths, io \in IoOutcomes :
          Record(Called("get_files_info", wd, p, <<>>, <<io, NoProc>>,
                        get_files_info(fs, cwd, io, wd, p), fs))
    /\ calls' = calls + 1
    /\ UNCHANGED <<cwd, loopVars>>

DirectWriteFile ==
    /\ calls = 0
    /\ \E wd \in WorkingDirs, p \in ReqPaths, io \in IoOutcomes :
          Record(Called("write_file", wd, p, <<"x">>, <<io, NoProc>>,
                        write_file(fs, cwd, io, wd, p, <<"x">>), fs))
    /\ calls' = calls + 1
    /\ UNCHANGED <<cwd, loopVars>>

DirectRunPythonFile ==
    /\ calls = 0
    /\ \E wd \in WorkingDirs, p \in ReqPaths, proc \in ProcOutcomes :
          Record(Called("run_python_file", wd, p, <<>>, <<"ok", proc>>,
                        run_python_file(fs, cwd, proc, wd, p), fs))
    /\ calls' = calls + 1
    /\ UNCHANGED <<cwd, loopVars>>

NextPath ==
    \/ DirectGetFileContent
    \/ DirectGetFilesInfo
    \/ DirectWriteFile
    \/ DirectRunPythonFile

SpecPath == InitPath /\ [][NextPath]_vars

----------------------------------------------------------------------------
(* Claims about the containment check (SpecPath) *)

FourOperations == {"get_file_content", "get_files_info", "write_file", "run_python_file"}

\* the normalized target is the root itself or lies beneath root + separator
Contained(c, working_directory, path) ==
    LET root == AbsWorkingDir(c, working_directory)
        target == TargetFullPath(c, working_directory, path)
    IN target = root \/ startswith(target, root \o <<"/">>)

IsContainmentError(result) ==
    Len(result) >= 2 /\ result[1] = "Error:" /\ result[Len(result)] = OutsideSuffix

\* C1: whenever the normalized target of the requested path is neither the
\* root nor a path beginning with root + separator, the operation called
\* answers with its containment error.
C1_OutsideIsRejected ==
    (last.op \in FourOperations /\ ~Contained(cwd, last.working_directory, last.path))
        => IsContainmentError(last.result)

\* C9: whenever the normalized target is the root or lies beneath root +
\* separator, the operation called answers neither with a containment error
\* nor with an access-denied error, whatever the root's absolute path is.
C9_InsideIsAdmitted ==
    (last.op \in FourOperations /\ Contained(cwd, last.working_directory, last.path))
        => (~IsContainmentError(last.result) /\ last.result # ErrAccessDenied)

IsWriteSuccess(result) == Len(result) >= 1 /\ result[1] = "Successfully "

\* the target of the last direct call
LastTarget == TargetFullPath(cwd, last.working_directory, last.path)

\* the last call was write_file on a contained path while the filesystem
\* did not fail
WroteContained ==
    /\ last.op = "write_file"
    /\ Contained(cwd, last.working_directory, last.path)

\* the parent directory of the target was missing before the call and
\* nothing but missing directories stood in the way of the target
ParentsMissing ==
    /\ ~exists(last.before, LastTarget)
    /\ ~exists(last.before, dirname(LastTarget))
    /\ makedirs_ok(last.before, dirname(LastTarget))

\* C11: write_file to a contained path whose parent directories do not
\* exist creates every missing parent directory and then succeeds, changing
\* nothing that existed before; write_file to a contained path that names an
\* existing directory returns the descriptive "is a directory, not a file"
\* error text and leaves the filesystem, the directory included, as it was.
C11_ParentsCreatedDirectoryRefused ==
    /\ (WroteContained /\ ParentsMissing /\ last.env[1] = "ok")
           => /\ IsWriteSuccess(last.result)
              /\ \A a \in Ancestors(dirname(LastTarget)) : isdir(fs, a)
              /\ isfile(fs, LastTarget)
              /\ \A q \in DOMAIN last.before : fs[q] = last.before[q]
    /\ (WroteContained /\ isdir(last.before, LastTarget))
           => /\ last.result = ErrIsDirectory(last.path)
              /\ fs = last.before
              /\ isdir(fs, LastTarget)

\* a write below the root that had to create the parent directory went
\* through
C11_Witness ==
    /\ WroteContained /\ ParentsMissing /\ last.env[1] = "ok"
    /\ IsWriteSuccess(last.result)
    /\ isdir(fs, dirname(LastTarget)) /\ isfile(fs, LastTarget)

\* the listing of the root directory in filesystem f
RootListing(f, c, working_directory) ==
    LET root == AbsWorkingDir(c, working_directory) IN
    ListingFrom(f, root, listdir(f, root), 1)

\* C10: the paths "." and "" pass the containment check and resolve to the
\* root, and listing either of them gives the listing of the root directory
\* (or, when the filesystem fails in the call, the text of that failure).
C10_DotAndEmptyListRoot ==
    (last.op = "get_files_info" /\ last.path \in {<<".">>, <<>>})
        => /\ PathAdmitted(cwd, last.working_directory, last.path)
           /\ TargetFullPath(cwd, last.working_directory, last.path)
                  = AbsWorkingDir(cwd, last.working_directory)
           /\ last.result \in {RootListing(last.before, cwd, last.working_directory),
                               ErrException}


----------------------------------------------------------------------------
(* SpecDispatch: one request handed to call_function; after a write_file   *)
(* request, the file it names is read back through call_function.         *)

\* the paths of the requests: a file, a script, a file to be created, one
\* whose parent is missing, a directory, one beneath a file, one outside
FsPaths ==
    {<<"f">>, <<"f", ".", "py">>, <<"n">>, <<"n", "/", "n">>, <<"2">>,
     <<"f", "/", "n">>, <<".", ".">>}

Contents == SeqsUpTo({"x", "\n"}, MaxContentLen)

\* requests as the schemas of function_schemas.py describe them
SchemaRequests ==
    {Request("get_file_content", "file_path" :> p) : p \in FsPaths}
    \cup {Request("get_files_info", "directory" :> d) : d \in {<<".">>, <<>>, <<"2">>, <<"f">>}}
    \cup {Request("get_files_info", <<>>)}
    \cup {Request("write_file", ("file_path" :> p) @@ ("content" :> c)) :
             p \in FsPaths, c \in Contents}
    \cup {Request("run_python_file", "file_path" :> p) : p \in FsPaths}
    \cup {Request("run_python_file", ("file_path" :> <<"f", ".", "py">>) @@ ("args" :> <<"x">>))}

\* requests the schemas do not allow: a tool that is not registered, a
\* required argument missing, an unknown argument, no argument mapping
OtherRequests ==
    {Request("delete_file", "file_path" :> <<"f">>), RequestNoArgs("delete_file"),
     Request("get_file_content", <<>>),
     Request("write_file", "file_path" :> <<"f">>),
     Request("get_files_info", "path" :> <<".">>),
     RequestNoArgs("get_files_info")}

\* a request with a root of the caller's own
WithWorkingDirectory(req, v) ==
    [req EXCEPT !.args.kv = ("working_directory" :> v) @@ req.args.kv]
WithoutWorkingDirectory(req) ==
    [req EXCEPT !.args.kv = [k \in DOMAIN req.args.kv \ {"working_directory"} |-> req.args.kv[k]]]

CallerRoots == {<<"/">>, <<"calculator", "/", "2">>}

DispatchRequests ==
    SchemaRequests \cup OtherRequests
    \cup {WithWorkingDirectory(r, v) :
             r \in {q \in SchemaRequests \cup OtherRequests : ~q.args.none}, v \in CallerRoots}

InitDispatch ==
    /\ cwd \in Cwds
    /\ \E c \in InitContents : fs = InitFs(cwd, c)
    /\ last = NoCall
    /\ calls = 0
    /\ NoLoop

\* one call of call_function outside the loop; a call that raises changes
\* nothing
Dispatch ==
    /\ calls = 0
    /\ \E req \in DispatchRequests :
          \E env \in Envs(req.name) :
             Record(Dispatched(req, env, call_function(fs, cwd, env[1], env[2], req), fs))
    /\ calls' = calls + 1
    /\ UNCHANGED <<cwd, loopVars>>

\* get_file_content for the path of the write_file request just dispatched
DispatchReadBack ==
    /\ calls = 1
    /\ last.op = "call_function" /\ last.req.name = "write_file" /\ last.executed
    /\ \E env \in Envs("get_file_content") :
          Record([Dispatched(Request("get_file_content",
                                     "file_path" :> last.req.args.kv["file_path"]),
                             env,
                             call_function(fs, cwd, env[1], env[2],
                                 Request("get_file_content",
                                         "file_path" :> last.req.args.kv["file_path"])),
                             fs)
                     EXCEPT !.path = last.req.args.kv["file_path"],
                            !.content = last.req.args.kv["content"],
                            !.written = [done |-> TRUE, result |-> last.result,
                                         before |-> last.before]])
    /\ calls' = calls + 1
    /\ UNCHANGED <<cwd, loopVars>>

NextDispatch == Dispatch \/ DispatchReadBack

SpecDispatch == InitDispatch /\ [][NextDispatch]_vars

----------------------------------------------------------------------------
(* SpecLoop: the agent loop of main.py (driver "cli") and of                *)
(* AIAgentTUI.process_user_message in tui.py (driver "tui").               *)

\* for iteration in range(20)
MaxIterations == 20

Ended == {"done", "aborted", "exhausted"}

Prompt == <<"prompt">>

\* the batches of tool requests the engine may answer with: a listing and a
\* read; a read outside the root and a tool that is not registered; a write
\* and a script run; a read of a missing file, a read without its required
\* argument and a listing
EngineBatches ==
    {<<Request("get_files_info", "directory" :> <<".">>),
       Request("get_file_content", "file_path" :> <<"f">>)>>,
     <<Request("get_file_content", "file_path" :> <<".", ".">>),
       Request("delete_file", "file_path" :> <<"f">>)>>,
     <<Request("write_file", ("file_path" :> <<"n">>) @@ ("content" :> <<"x">>)),
       Request("run_python_file", "file_path" :> <<"f", ".", "py">>)>>,
     <<Request("get_file_content", "file_path" :> <<"n">>),
       Request("get_file_content", <<>>),
       Request("get_files_info", <<>>)>>}

NormalProc == [kind |-> "completed", stdout |-> <<"o">>, stderr |-> <<>>, returncode |-> 0]
TimeoutProc == [kind |-> "timeout", stdout |-> <<>>, stderr |-> <<>>, returncode |-> 0]

\* what the environment may do in one dispatch of the loop: it may fail
\* only in a round that was chosen freely
LoopEnvs(name, free) ==
    IF free /\ name = "write_file" THEN {<<"ok", NormalProc>>, <<"fail_open", NormalProc>>}
    ELSE IF free /\ name = "run_python_file" THEN {<<"ok", NormalProc>>, <<"ok", TimeoutProc>>}
    ELSE {<<"ok", NormalProc>>}

InitLoop ==
    /\ cwd \in Cwds
    /\ fs = InitFs(cwd, <<"x", "\n", "y", "\n">>)
    /\ last = NoCall
    /\ calls = 0
    /\ driver \in {"cli", "tui"}
    /\ pc = IF driver = "cli" THEN "decide" ELSE "idle"
    /\ messages = IF driver = "cli" THEN <<UserTurn(Prompt)>> ELSE <<>>
    /\ iteration = 0
    /\ pending = <<>>
    /\ idx = 0
    /\ log = <<>>
    /\ stats = [NoStats EXCEPT !.prompts = IF driver = "cli" THEN 1 ELSE 0]

\* a TUI that starts every prompt with a history of its own
SubmitPromptResetting ==
    /\ driver = "tui"
    /\ pc \in Ended \cup {"idle"}
    /\ stats.prompts < MaxPrompts
    /\ messages' = <<UserTurn(Prompt)>>
    /\ log' = Append(log, "user")
    /\ iteration' = 0
    /\ pc' = "decide"
    /\ stats' = [stats EXCEPT !.prompts = @ + 1, !.engine_calls = 0, !.dispatches = 0,
                              !.free = FALSE]
    /\ last' = NoCall
    /\ UNCHANGED <<cwd, fs, calls, driver, pending, idx>>

\* tui.py, on_input_submitted / process_user_message up to the loop: the
\* user's turn is appended to the history kept by the application
SubmitPrompt ==
    /\ driver = "tui"
    /\ pc \in Ended \cup {"idle"}
    /\ stats.prompts < MaxPrompts
    /\ messages' = Append(messages, UserTurn(Prompt))
    /\ log' = Append(log, "user")
    /\ iteration' = 0
    /\ pc' = "decide"
    /\ stats' = [stats EXCEPT !.prompts = @ + 1, !.engine_calls = 0, !.dispatches = 0,
                              !.free = FALSE]
    /\ last' = NoCall
    /\ UNCHANGED <<cwd, fs, calls, driver, pending, idx>>

\* tui.py, action_clear (ctrl+l), between two prompts
ActionClear ==
    /\ driver = "tui"
    /\ pc \in Ended \cup {"idle"}
    /\ messages # <<>>
    /\ messages' = <<>>
    /\ log' = <<"ready">>
    /\ pc' = "idle"
    /\ last' = NoCall
    /\ UNCHANGED <<cwd, fs, calls, driver, iteration, pending, idx, stats>>

\* a loop that reports a fault of generate_content and goes on with the
\* next iteration instead of leaving the for statement
EngineFaultsRetrying ==
    /\ pc = "decide"
    /\ stats.choices < MaxChoices
    /\ pc' = IF iteration + 1 < MaxIterations THEN "decide" ELSE "exhausted"
    /\ iteration' = iteration + 1
    /\ log' = Append(log, "error")
    /\ stats' = [stats EXCEPT !.engine_calls = @ + 1, !.choices = @ + 1]
    /\ last' = NoCall
    /\ UNCHANGED <<cwd, fs, calls, driver, messages, pending, idx>>

\* generate_content raises: the except clause reports it and the loop ends
EngineFaults ==
    /\ pc = "decide"
    /\ stats.choices < MaxChoices
    /\ pc' = "aborted"
    /\ log' = Append(log, "error")
    /\ stats' = [stats EXCEPT !.engine_calls = @ + 1, !.choices = @ + 1]
    /\ last' = NoCall
    /\ UNCHANGED <<cwd, fs, calls, driver, messages, iteration, pending, idx>>

\* a loop that shows the text of a response without function calls and
\* asks the engine again instead of leaving the for statement
EngineAnswersContinuing ==
    /\ pc = "decide"
    /\ \/ stats.choices < MaxChoices /\ stats' = [stats EXCEPT !.engine_calls = @ + 1,
                                                               !.choices = @ + 1]
       \/ stats.choices >= MaxChoices /\ pending = <<>>
            /\ stats' = [stats EXCEPT !.engine_calls = @ + 1]
    /\ messages' = Append(messages, ModelTurn(<<"answer">>, <<>>))
    /\ log' = Append(log, "final_answer")
    /\ pending' = <<>>
    /\ pc' = IF iteration + 1 < MaxIterations THEN "decide" ELSE "exhausted"
    /\ iteration' = iteration + 1
    /\ last' = NoCall
    /\ UNCHANGED <<cwd, fs, calls, driver, idx>>

\* a response without function calls: its content is appended, its text is
\* shown as the final answer, break
EngineAnswers ==
    /\ pc = "decide"
    /\ \/ stats.choices < MaxChoices /\ stats' = [stats EXCEPT !.engine_calls = @ + 1,
                                                               !.choices = @ + 1]
       \/ stats.choices >= MaxChoices /\ pending = <<>>
            /\ stats' = [stats EXCEPT !.engine_calls = @ + 1]
    /\ messages' = Append(messages, ModelTurn(<<"answer">>, <<>>))
    /\ log' = Append(log, "final_answer")
    /\ pending' = <<>>
    /\ pc' = "done"
    /\ last' = NoCall
    /\ UNCHANGED <<cwd, fs, calls, driver, iteration, idx>>

\* a loop that executes the calls of a response without appending its
\* content to the history first
EngineRequestsToolsUnrecorded ==
    /\ pc = "decide"
    /\ \E batch \in EngineBatches \cup {pending} :
          /\ batch # <<>>
          /\ \/ stats.choices < MaxChoices
                  /\ stats' = [stats EXCEPT !.engine_calls = @ + 1, !.choices = @ + 1,
                                            !.free = TRUE]
             \/ stats.choices >= MaxChoices /\ batch = pending
                  /\ stats' = [stats EXCEPT !.engine_calls = @ + 1, !.free = FALSE]
          /\ pending' = batch
    /\ idx' = 1
    /\ pc' = "exec"
    /\ last' = NoCall
    /\ UNCHANGED <<cwd, fs, calls, driver, iteration, log, messages>>

\* a response with function calls: its content is appended and the calls
\* are executed in order
EngineRequestsTools ==
    /\ pc = "decide"
    /\ \E batch \in EngineBatches \cup {pending} :
          /\ batch # <<>>
          /\ \/ stats.choices < MaxChoices
                  /\ stats' = [stats EXCEPT !.engine_calls = @ + 1, !.choices = @ + 1,
                                            !.free = TRUE]
             \/ stats.choices >= MaxChoices /\ batch = pending
                  /\ stats' = [stats EXCEPT !.engine_calls = @ + 1, !.free = FALSE]
          /\ messages' = Append(messages, ModelTurn(<<>>, batch))
          /\ pending' = batch
    /\ idx' = 1
    /\ pc' = "exec"
    /\ last' = NoCall
    /\ UNCHANGED <<cwd, fs, calls, driver, iteration, log>>

\* a loop without the limit of the for statement ("while True")
AfterRequestUnbounded ==
    IF idx < Len(pending)
    THEN [pc |-> "exec", idx |-> idx + 1, iteration |-> iteration]
    ELSE [pc |-> "decide", idx |-> idx, iteration |-> iteration + 1]

\* the position after the request at idx was handled without an exception:
\* the next request of the batch, or the next iteration of the for loop,
\* which ends after MaxIterations iterations
AfterRequest ==
    IF idx < Len(pending)
    THEN [pc |-> "exec", idx |-> idx + 1, iteration |-> iteration]
    ELSE [pc |-> IF iteration + 1 < MaxIterations THEN "decide" ELSE "exhausted",
          idx |-> idx, iteration |-> iteration + 1]

\* the position of the last agent turn of history h (0 when there is none)
RECURSIVE LastModelFrom(_, _)
LastModelFrom(h, i) ==
    IF i = 0 THEN 0 ELSE IF h[i].role = "model" THEN i ELSE LastModelFrom(h, i - 1)

\* the history after a dispatch, before anything is appended: the request
\* dispatched is a part of the agent turn appended last (candidate.content
\* and response.function_calls hold the same objects), so the turn shows
\* the request as call_function left it
Stored(h, out) ==
    [h EXCEPT ![LastModelFrom(h, Len(h))].function_calls[idx] = out.req_after]

\* a loop that treats a result reporting an error like an exception
HandleResultStoppingOnError(out) ==
    IF \/ out.raised
       \/ out.turn.function_response.key = "error"
       \/ (out.result # <<>> /\ out.result[1] = "Error:")
    THEN /\ pc' = "aborted"
         /\ log' = Append(log, "error")
         /\ messages' = Stored(messages, out)
         /\ UNCHANGED <<idx, iteration>>
    ELSE /\ messages' = Append(Stored(messages, out), out.turn)
         /\ UNCHANGED log
         /\ pc' = AfterRequest.pc
         /\ idx' = AfterRequest.idx
         /\ iteration' = AfterRequest.iteration

\* what the loop does with function_call_result: an exception (and, in
\* main.py, a result without a function response) goes to the except clause,
\* which shows the error and ends the loop; tui.py shows "No function
\* response" and continues; otherwise the result is appended as a tool turn
HandleResult(out) ==
    IF out.raised \/ (driver = "cli" /\ ~out.turn.function_response.present)
    THEN /\ pc' = "aborted"
         /\ log' = Append(log, "error")
         /\ messages' = Stored(messages, out)
         /\ UNCHANGED <<idx, iteration>>
    ELSE /\ IF ~out.turn.function_response.present
            THEN log' = Append(log, "no_response") /\ messages' = Stored(messages, out)
            ELSE messages' = Append(Stored(messages, out), out.turn) /\ UNCHANGED log
         /\ pc' = AfterRequest.pc
         /\ idx' = AfterRequest.idx
         /\ iteration' = AfterRequest.iteration

\* one pass of "for function_call_part in response.function_calls"
ExecuteTool ==
    /\ pc = "exec"
    /\ \E env \in LoopEnvs(pending[idx].name, stats.free) :
          Record(Dispatched(pending[idx], env,
                            call_function(fs, cwd, env[1], env[2], pending[idx]), fs))
    /\ HandleResult(last')
    /\ stats' = [stats EXCEPT !.dispatches = @ + 1]
    /\ pending' = [pending EXCEPT ![idx] = last'.req_after]
    /\ UNCHANGED <<cwd, calls, driver>>

\* what a dispatcher returns when the first part of its turn carries no
\* function response (parts[0].function_response is None): the case the
\* check after call_function in main.py and tui.py is written for
NoEnvelope(f, name) ==
    [raised |-> FALSE, executed |-> FALSE, fs |-> f,
     turn |-> [ToolTurn(name, "result", <<>>) EXCEPT !.function_response = NoResponse]]

\* one pass of "for function_call_part in response.function_calls" in which
\* the dispatcher returns such a turn
ExecuteToolNoEnvelope ==
    /\ pc = "exec"
    /\ stats.free
    /\ Record(Dispatched(pending[idx], <<"ok", NormalProc>>,
                         NoEnvelope(fs, pending[idx].name), fs))
    /\ HandleResult(last')
    /\ stats' = [stats EXCEPT !.dispatches = @ + 1]
    /\ pending' = [pending EXCEPT ![idx] = last'.req_after]
    /\ UNCHANGED <<cwd, calls, driver>>

NextLoop ==
    \/ SubmitPrompt
    \/ ActionClear
    \/ EngineFaults
    \/ EngineAnswers
    \/ EngineRequestsTools
    \/ ExecuteTool

SpecLoop == InitLoop /\ [][NextLoop]_vars

\* the loop around a dispatcher that may also return a turn without
\* function response
NextLoopAnyTurn ==
    \/ SubmitPrompt
    \/ ActionClear
    \/ EngineFaults
    \/ EngineAnswers
    \/ EngineRequestsTools
    \/ ExecuteTool
    \/ ExecuteToolNoEnvelope

SpecLoopAnyTurn == InitLoop /\ [][NextLoopAnyTurn]_vars

----------------------------------------------------------------------------
(* Claims about the dispatcher and the file operations (SpecDispatch) *)


\* C2: after write_file has written content c (no longer than the read cap)
\* to a path, whether the file is new or existed with other content,
\* get_file_content of that path returns exactly c.
C2_WriteThenReadReturnsContent ==
    (/\ last.op = "call_function" /\ last.written.done
     /\ IsWriteSuccess(last.written.result)
     /\ Len(last.content) <= MAX_FILE_CHAR_LENGTH
     /\ last.result # ErrException)
        => last.result = last.content

\* C7: a request whose name is none of the four registered tools gets a
\* tool-role turn whose error text names the unknown tool; no operation is
\* executed, the filesystem is untouched and nothing is raised, whatever the
\* arguments of the request are (none at all included).
C7_UnknownToolIsReported ==
    (last.op = "call_function" /\ last.req.name \notin FourOperations)
        => /\ ~last.raised
           /\ ~last.executed
           /\ fs = last.before
           /\ last.turn.role = "tool"
           /\ last.turn.function_response.present
           /\ last.turn.function_response.name = last.req.name
           /\ last.turn.function_response.key = "error"
           /\ last.turn.function_response.text = <<"Unknown function: ", last.req.name>>

C7_Witness ==
    /\ last.op = "call_function"
    /\ last.req.name \notin FourOperations
    /\ last.req.args.none
    /\ last.turn.function_response.key = "error"

\* C8: the request dispatched, the same request without a working_directory
\* argument and the same request with any working_directory argument give
\* the same turn and the same filesystem, in every environment: the root is
\* the dispatcher's own.
C8_RootIsNotTheCallers ==
    (last.op = "call_function" /\ ~last.written.done)
        => /\ \A env \in Envs(last.req.name) :
                 LET plain == call_function(last.before, cwd, env[1], env[2],
                                            WithoutWorkingDirectory(last.req))
                 IN \A v \in CallerRoots \cup {DispatchWorkingDir} :
                       call_function(last.before, cwd, env[1], env[2],
                                     WithWorkingDirectory(last.req, v)) = plain
           /\ \E env \in Envs(last.req.name) :
                 LET plain == call_function(last.before, cwd, env[1], env[2],
                                            WithoutWorkingDirectory(last.req))
                 IN plain.turn = last.turn /\ plain.raised = last.raised /\ plain.fs = fs

C8_Witness ==
    /\ last.op = "call_function"
    /\ "working_directory" \in DOMAIN last.req.args.kv
    /\ last.req.args.kv["working_directory"] = <<"/">>
    /\ last.req.name = "get_file_content"
    /\ last.result = <<"x">>

----------------------------------------------------------------------------
(* Claims about the agent loop (SpecLoop) *)

\* the agent turn at position i of history h, with its k requests, is
\* followed by exactly k tool turns that answer its requests in their order
PairedAt(h, i) ==
    LET k == Len(h[i].function_calls) IN
    /\ i + k <= Len(h)
    /\ \A j \in 1..k :
          /\ h[i + j].role = "tool"
          /\ h[i + j].function_response.present
          /\ h[i + j].function_response.name = h[i].function_calls[j].name
    /\ (i + k < Len(h) => h[i + k + 1].role # "tool")

Paired(h) == \A i \in 1..Len(h) : h[i].role = "model" => PairedAt(h, i)

\* C3: whenever the decision engine is about to be called, every agent turn
\* of the history with k >= 1 tool requests is followed, before the next
\* agent turn, by exactly k tool turns in the order of the requests.
C3_PairingAtEngineCall == pc = "decide" => Paired(messages)

\* C4: the loop of one prompt calls the engine at most MaxIterations times;
\* when the iterations are used up it has made exactly that many engine
\* calls; every fault ends in the except clause; and once the loop has ended
\* no engine call and no tool dispatch is possible any more.
C4_TerminatesWithinMaxIterations ==
    /\ stats.engine_calls <= MaxIterations
    /\ pc \in {"idle", "decide", "exec"} \cup Ended
    /\ (pc = "exhausted" => stats.engine_calls = MaxIterations)
    /\ (pc \in Ended =>
           ~ENABLED (EngineFaults \/ EngineAnswers \/ EngineRequestsTools \/ ExecuteTool))

\* the engine asked for tools in every one of MaxIterations responses and
\* the loop has ended
C4_Witness ==
    /\ pc = "exhausted"
    /\ stats.engine_calls = MaxIterations
    /\ stats.dispatches >= MaxIterations

\* C5: when the iterations are used up without a final answer, the last
\* thing shown to the operator is an explanation that the maximum number of
\* iterations was reached.
C5_ExhaustionIsExplained ==
    pc = "exhausted" => (log # <<>> /\ log[Len(log)] = "max_iterations")

\* the result texts that report an error
IsErrorText(t) ==
    t # <<>> /\ t[1] \in {"Error:", "Error creating directory: ", "Error executing Python file: "}

\* the dispatch recorded in call ended in a containment violation, a path
\* not found, an I/O failure, a timeout or an unknown tool
IsToolError(call) ==
    /\ call.op = "call_function"
    /\ ~call.raised
    /\ call.turn.function_response.key = "error" \/ IsErrorText(call.result)

\* C6: after a dispatch that ended in a tool error the loop has not stopped:
\* the error text is the last turn of the history, a tool turn, and the loop
\* goes on with the next request or the next engine call, unless the
\* iterations are used up.
C6_ToolErrorsDoNotStopTheLoop ==
    IsToolError(last) =>
        /\ messages # <<>>
        /\ messages[Len(messages)] = last.turn
        /\ last.turn.role = "tool"
        /\ last.turn.function_response.text = last.result
        /\ \/ pc \in {"exec", "decide"}
           \/ pc = "exhausted" /\ iteration = MaxIterations

\* a script run timed out and the loop goes on to the next engine call
C6_Witness ==
    /\ IsToolError(last)
    /\ last.result = ErrTimeout
    /\ pc = "decide"
    /\ messages[Len(messages)].function_response.text = ErrTimeout

\* the last step was a dispatch whose turn carries no function response
DispatchedNoEnvelope ==
    /\ last.op = "call_function"
    /\ ~last.raised
    /\ ~last.turn.function_response.present

\* C12: whenever a dispatch yields a tool turn without function response,
\* the loop is Aborted right after it, in the CLI and in the TUI: the fault
\* is shown, the tool turn is not appended, and neither a further request of
\* the batch nor a further engine call can follow.
C12_MissingEnvelopeAborts ==
    DispatchedNoEnvelope
        => /\ pc = "aborted"
           /\ log # <<>> /\ log[Len(log)] = "error"
           /\ \A i \in 1..Len(messages) :
                 messages[i].role = "tool" => messages[i].function_response.present
           /\ ~ENABLED (EngineFaults \/ EngineAnswers \/ EngineRequestsTools
                          \/ ExecuteTool \/ ExecuteToolNoEnvelope)

\* C12 for the CLI alone
C12_MissingEnvelopeAbortsCli == driver = "cli" => C12_MissingEnvelopeAborts

\* the last step was an engine call that raised: an error is the last
\* output and no dispatch produced it
EngineJustFaulted ==
    /\ log # <<>> /\ log[Len(log)] = "error"
    /\ last.op = "none"

\* C13: whenever the engine call raises, in whatever round, the loop is
\* Aborted with the fault shown to the operator, the history ends with what
\* it held before the call, and neither a dispatch nor a further engine call
\* can follow for that prompt.
C13_EngineFaultAborts ==
    EngineJustFaulted
        => /\ pc = "aborted"
           /\ stats.engine_calls = iteration + 1
           /\ messages[Len(messages)].role # "model"
           /\ ~ENABLED (EngineFaults \/ EngineAnswers \/ EngineRequestsTools \/ ExecuteTool)

\* the engine call of a later round raised, after a round of dispatches
C13_Witness ==
    /\ EngineJustFaulted
    /\ pc = "aborted"
    /\ iteration >= 1
    /\ stats.dispatches >= 1

\* the last turn of the history is a response of the engine
LastIsResponse == messages # <<>> /\ messages[Len(messages)].role = "model"

\* C14: the loop is Done exactly when the last response carries no tool
\* request: right after such a response the loop is Done, its text was
\* shown as the final answer, nothing was dispatched for it and no engine
\* call or dispatch can follow; right after a response with at least one
\* tool request the loop is executing its first request, never Done; and
\* whenever the loop is Done the response that ended it has no request.
C14_DoneIffNoRequests ==
    /\ (LastIsResponse /\ messages[Len(messages)].function_calls = <<>>)
           => /\ pc = "done"
              /\ log # <<>> /\ log[Len(log)] = "final_answer"
              /\ last.op = "none"
              /\ ~ENABLED (EngineFaults \/ EngineAnswers \/ EngineRequestsTools
                             \/ ExecuteTool)
    /\ (LastIsResponse /\ messages[Len(messages)].function_calls # <<>>)
           => /\ pc \in {"exec", "aborted"}
              /\ pc = "exec" => (idx = 1 /\ pending = messages[Len(messages)].function_calls)
              /\ pc = "aborted" => last.raised
    /\ pc = "done"
           => /\ LastIsResponse
              /\ messages[Len(messages)].function_calls = <<>>

\* the engine answered without requests after a round of dispatches
C14_Witness ==
    /\ pc = "done"
    /\ LastIsResponse
    /\ messages[Len(messages)].function_calls = <<>>
    /\ stats.dispatches >= 1
    /\ stats.engine_calls >= 2

----------------------------------------------------------------------------
(* run_python_file called directly on script paths (SpecRun) *)

RunAlphabet == {"/", ".", "2", "f", "py"}
RunPaths == SeqsUpTo(RunAlphabet, MaxRunPathLen)

RunPythonFile ==
    /\ calls = 0
    /\ \E wd \in WorkingDirs, p \in RunPaths, proc \in ProcOutcomes :
          Record(Called("run_python_file", wd, p, <<>>, <<"ok", proc>>,
                        run_python_file(fs, cwd, proc, wd, p), fs))
    /\ calls' = calls + 1
    /\ UNCHANGED <<cwd, loopVars>>

SpecRun == InitPath /\ [][RunPythonFile]_vars

\* the last call was run_python_file on a contained path
RanContained ==
    /\ last.op = "run_python_file"
    /\ Contained(cwd, last.working_directory, last.path)

\* ... and the path names an existing script, so that subprocess.run was
\* reached
RanScript ==
    /\ RanContained
    /\ exists(last.before, LastTarget)
    /\ endswith(LastTarget, <<".", "py">>)

\* what subprocess.run did in the last call
LastProc == last.env[2]

\* the line reporting exit code n
ExitLine(n) == <<"Process exited with code ", ToString(n)>>

\* C15: run_python_file on a contained existing .py script that terminates
\* with a non-zero exit code N returns a payload that is not an error text
\* and whose last line is "Process exited with code N", after the STDOUT and
\* STDERR sections if there are any.
C15_NonZeroExitIsReported ==
    (RanScript /\ LastProc.kind = "completed" /\ LastProc.returncode # 0)
        => /\ ~IsErrorText(last.result)
           /\ endswith(last.result, ExitLine(LastProc.returncode))
           /\ \/ last.result = ExitLine(LastProc.returncode)
              \/ /\ endswith(last.result, <<"\n">> \o ExitLine(LastProc.returncode))
                 /\ last.result[1] \in {"STDOUT:\n", "STDERR:\n"}
           /\ last.spawned

\* a script that wrote to stdout and stderr ended with exit code 1
C15_Witness ==
    /\ RanScript
    /\ LastProc.kind = "completed" /\ LastProc.returncode = 1
    /\ LastProc.stdout # <<>> /\ LastProc.stderr # <<>>
    /\ endswith(last.result, ExitLine(1))

\* C16: run_python_file on a contained existing .py script that runs longer
\* than the 30 seconds given to subprocess.run returns the timeout error
\* text, without an exit code line, and when it returns the child process
\* that was started has been killed: it is not running any more.
C16_TimeoutKillsTheChild ==
    (RanScript /\ LastProc.kind = "timeout")
        => /\ last.result = ErrTimeout
           /\ IsErrorText(last.result)
           /\ \A i \in 1..Len(last.result) : last.result[i] # "Process exited with code "
           /\ last.spawned
           /\ last.child = "killed"
           /\ fs = last.before

\* a script ran into the timeout
C16_Witness ==
    /\ RanScript
    /\ LastProc.kind = "timeout"
    /\ last.spawned
    /\ last.result = ErrTimeout

\* two parts of a payload, each on lines of its own
Glue(a, b) == IF a = <<>> THEN b ELSE IF b = <<>> THEN a ELSE a \o <<"\n">> \o b

\* the sections a completed process gives rise to
StdoutSection(proc) == IF proc.stdout # <<>> THEN <<"STDOUT:\n">> \o proc.stdout ELSE <<>>
StderrSection(proc) == IF proc.stderr # <<>> THEN <<"STDERR:\n">> \o proc.stderr ELSE <<>>
ExitSection(proc) == IF proc.returncode # 0 THEN ExitLine(proc.returncode) ELSE <<>>

\* the process of the last call completed without output and with exit
\* code 0
CompletedSilently ==
    /\ RanScript
    /\ LastProc.kind = "completed"
    /\ LastProc.stdout = <<>> /\ LastProc.stderr = <<>> /\ LastProc.returncode = 0

\* C17: run_python_file returns the "No output produced." payload exactly
\* when the process completed with empty stdout, empty stderr and exit code
\* 0; the payload of every other completed process is, in this order, the
\* STDOUT section iff stdout is not empty, the STDERR section iff stderr is
\* not empty, and the exit code line iff the exit code is not 0.
C17_PayloadOfACompletedProcess ==
    last.op = "run_python_file"
        => /\ (last.result = NoOutput) <=> CompletedSilently
           /\ (RanScript /\ LastProc.kind = "completed" /\ ~CompletedSilently)
                 => last.result = Glue(Glue(StdoutSection(LastProc), StderrSection(LastProc)),
                                       ExitSection(LastProc))

\* a process completed silently
C17_Witness ==
    /\ CompletedSilently
    /\ last.result = NoOutput

\* a process completed with both streams written and exit code 1
C17_WitnessSections ==
    /\ RanScript /\ LastProc.kind = "completed"
    /\ LastProc.stdout # <<>> /\ LastProc.stderr # <<>> /\ LastProc.returncode # 0
    /\ Len(last.result) = Len(LastProc.stdout) + Len(LastProc.stderr) + 6

\* the last call returned before subprocess.run and left everything alone
NothingSpawned ==
    /\ ~last.spawned
    /\ last.child = "none"
    /\ fs = last.before

\* C18: run_python_file starts no process when the contained target does
\* not exist or does not end with ".py": a missing target is answered with
\* the "not found" error text, an existing target with another extension
\* with the "is not a Python file" error text, whatever the process would
\* have done.
C18_NoProcessWithoutScript ==
    /\ (RanContained /\ ~exists(last.before, LastTarget))
           => (last.result = ErrFileNotFound(last.path) /\ NothingSpawned)
    /\ (RanContained /\ exists(last.before, LastTarget)
          /\ ~endswith(LastTarget, <<".", "py">>))
           => (last.result = ErrNotPython(last.path) /\ NothingSpawned)

\* an existing regular file without the extension was refused
C18_Witness ==
    /\ RanContained
    /\ isfile(last.before, LastTarget)
    /\ ~endswith(LastTarget, <<".", "py">>)
    /\ last.result = ErrNotPython(last.path)
    /\ LastProc.kind = "completed"

\* a missing path with the extension was refused
C18_WitnessMissing ==
    /\ RanContained
    /\ ~exists(last.before, LastTarget)
    /\ endswith(LastTarget, <<".", "py">>)
    /\ last.result = ErrFileNotFound(last.path)

----------------------------------------------------------------------------
(* get_file_content called directly on files of every length around the
   limit (SpecRead) *)

ReadAlphabet == {"/", ".", "2", "f"}
ReadPaths == SeqsUpTo(ReadAlphabet, MaxReadPathLen)

\* the texts the file f may hold: every length up to one more than the limit
ReadContents == SeqsUpTo({"x", "\n"}, MAX_FILE_CHAR_LENGTH + 1)

\* what open() and read() may do
ReadIo == {"ok", "fail_open", "fail_read"}

InitRead ==
    /\ cwd \in Cwds
    /\ \E content_of_f \in ReadContents : fs = InitFs(cwd, content_of_f)
    /\ last = NoCall
    /\ calls = 0
    /\ NoLoop

ReadFile ==
    /\ calls = 0
    /\ \E wd \in WorkingDirs, p \in ReadPaths, io \in ReadIo :
          Record(Called("get_file_content", wd, p, <<>>, <<io, NoProc>>,
                        get_file_content(fs, cwd, io, wd, p), fs))
    /\ calls' = calls + 1
    /\ UNCHANGED <<cwd, loopVars>>

SpecRead == InitRead /\ [][ReadFile]_vars

\* the last call was get_file_content on a contained path
ReadContained ==
    /\ last.op = "get_file_content"
    /\ Contained(cwd, last.working_directory, last.path)

\* the text of the target before the call
LastText == last.before[LastTarget].content

Min(a, b) == IF a < b THEN a ELSE b

\* C19: get_file_content on a contained regular file that can be opened and
\* read returns exactly the first min(length, MAX_FILE_CHAR_LENGTH)
\* characters of the file, unchanged, and leaves the file alone; a file
\* longer than the limit is cut, never answered with an error.
C19_ReadIsCappedPrefix ==
    (ReadContained /\ isfile(last.before, LastTarget) /\ last.env[1] = "ok")
        => /\ Len(last.result) = Min(Len(LastText), MAX_FILE_CHAR_LENGTH)
           /\ \A i \in 1..Len(last.result) : last.result[i] = LastText[i]
           /\ ~IsErrorText(last.result)
           /\ fs = last.before

\* a file longer than the limit was read and cut at the limit
C19_Witness ==
    /\ ReadContained /\ isfile(last.before, LastTarget) /\ last.env[1] = "ok"
    /\ Len(LastText) > MAX_FILE_CHAR_LENGTH
    /\ Len(last.result) = MAX_FILE_CHAR_LENGTH
    /\ last.result = SubSeq(LastText, 1, MAX_FILE_CHAR_LENGTH)

\* a file shorter than the limit was read whole
C19_WitnessShort ==
    /\ ReadContained /\ isfile(last.before, LastTarget) /\ last.env[1] = "ok"
    /\ Len(LastText) \in 1..(MAX_FILE_CHAR_LENGTH - 1)
    /\ last.result = LastText

\* C20: get_file_content returns, and returns an error text naming the
\* cause and nothing of a file's content, when the contained target does not
\* exist, when it is a directory, and when opening or reading the file
\* fails; the filesystem is left as it was.
C20_ReadErrorsAreReturned ==
    /\ (ReadContained /\ ~isfile(last.before, LastTarget))
           => /\ last.result = ErrNotRegular(last.path)
              /\ IsErrorText(last.result)
              /\ fs = last.before
    /\ (ReadContained /\ isfile(last.before, LastTarget)
          /\ last.env[1] \in {"fail_open", "fail_read"})
           => /\ last.result = ErrException
              /\ IsErrorText(last.result)
              /\ fs = last.before

\* a directory below the root was asked for
C20_Witness ==
    /\ ReadContained
    /\ isdir(last.before, LastTarget)
    /\ LastTarget # AbsWorkingDir(cwd, last.working_directory)
    /\ last.result = ErrNotRegular(last.path)

\* a missing path was asked for
C20_WitnessMissing ==
    /\ ReadContained
    /\ ~exists(last.before, LastTarget)
    /\ last.result = ErrNotRegular(last.path)

\* reading a non-empty file failed
C20_WitnessIo ==
    /\ ReadContained
    /\ isfile(last.before, LastTarget) /\ LastText # <<>>
    /\ last.env[1] = "fail_read"
    /\ last.result = ErrException

----------------------------------------------------------------------------
(* Claims about the listing (SpecPath) *)

\* the direct children of directory p in filesystem f
Children(f, p) == {r \in DOMAIN f : r # p /\ dirname(r) = p}

\* the line the listing owes to child q
ChildLine(f, q) ==
    <<"- ">> \o basename(q)
        \o <<": file_size=", getsize(f, q), " bytes, is_dir=",
             IF f[q].kind = "dir" THEN "True" ELSE "False", "\n">>

\* the number of lines of text t
RECURSIVE LineCount(_)
LineCount(t) ==
    IF t = <<>> THEN 0
    ELSE (IF t[Len(t)] = "\n" THEN 1 ELSE 0) + LineCount(SubSeq(t, 1, Len(t) - 1))

\* the last call was get_files_info on a contained path
ListedContained ==
    /\ last.op = "get_files_info"
    /\ Contained(cwd, last.working_directory, last.path)

\* C21: get_files_info on a contained directory with N direct children
\* returns, when the filesystem does not fail, exactly N lines, one for each
\* direct child and none for what lies deeper, each with the child's name,
\* size and is-directory flag; on a contained target that is a file or is
\* missing it returns an error text.
C21_ListingHasOneLinePerChild ==
    /\ (ListedContained /\ isdir(last.before, LastTarget)
          /\ last.env[1] \notin {"fail_open", "fail_read"})
           => /\ LineCount(last.result) = Cardinality(Children(last.before, LastTarget))
              /\ \A q \in Children(last.before, LastTarget) :
                    contains(last.result, ChildLine(last.before, q))
    /\ (ListedContained /\ ~isdir(last.before, LastTarget))
           => IsErrorText(last.result)

\* C21 where the absolute path of the root contains "/AI_agent"
C21_ListingInsideProject ==
    contains(AbsWorkingDir(cwd, last.working_directory), <<"/", "AI_agent">>)
        => C21_ListingHasOneLinePerChild

\* a directory with a file, a script and a directory in it was listed
C21_ListedThreeChildren ==
    /\ ListedContained /\ isdir(last.before, LastTarget)
    /\ Cardinality(Children(last.before, LastTarget)) >= 3
    /\ LineCount(last.result) = Cardinality(Children(last.before, LastTarget))

----------------------------------------------------------------------------
(* Claims about the turn call_function returns (SpecDispatch) *)

\* call_function returned a turn in the last step
Returned == last.op = "call_function" /\ ~last.raised

\* the key under which call_function wraps what an operation returned
ResultKey == "result"

\* C22: every turn call_function returns has role "tool", one part with a
\* function response that names the requested tool, and carries its text
\* under the key of the success payload, whatever the tool and the outcome
\* are, the unknown tool included.
C22_UniformEnvelope ==
    Returned
        => /\ last.turn.role = "tool"
           /\ last.turn.text = <<>> /\ last.turn.function_calls = <<>>
           /\ last.turn.function_response.present
           /\ last.turn.function_response.name = last.req.name
           /\ last.turn.function_response.key = ResultKey

\* C22 for the registered tools alone
C22_UniformEnvelopeRegistered == last.req.name \in functions => C22_UniformEnvelope

\* an operation that failed was wrapped like one that succeeded
C22_ErrorUnderResultKey ==
    /\ Returned /\ last.executed
    /\ IsErrorText(last.result)
    /\ last.turn.function_response.key = ResultKey

----------------------------------------------------------------------------
(* Claims about the history (SpecLoop) *)

\* the number of turns of role r in history h from position i on
RECURSIVE CountRole(_, _, _)
CountRole(h, r, i) ==
    IF i > Len(h) THEN 0
    ELSE (IF h[i].role = r THEN 1 ELSE 0) + CountRole(h, r, i + 1)

\* the position of the last user turn of history h (0 when there is none)
RECURSIVE LastUserFrom(_, _)
LastUserFrom(h, i) ==
    IF i = 0 THEN 0 ELSE IF h[i].role = "user" THEN i ELSE LastUserFrom(h, i - 1)
LastUser(h) == LastUserFrom(h, Len(h))

\* C23: while the requests of a response are being dispatched, the agent's
\* turn holding exactly these requests is already in the history, in front
\* of the tool turns of the requests handled so far, that is, it was
\* appended before the first dispatch; and every response of the engine has
\* added exactly one agent turn: the agent turns since the prompt are as
\* many as the engine calls that returned a response.
C23_AgentTurnFirstAndOnce ==
    /\ pc = "exec"
          => /\ Len(messages) >= idx
             /\ messages[Len(messages) - (idx - 1)] = ModelTurn(<<>>, pending)
             /\ \A j \in (Len(messages) - (idx - 1) + 1)..Len(messages) :
                   messages[j].role = "tool"
    /\ pc \in {"exec", "decide", "done", "exhausted"}
          => CountRole(messages, "model", LastUser(messages) + 1) = stats.engine_calls
    /\ pc = "aborted"
          => CountRole(messages, "model", LastUser(messages) + 1)
                 = stats.engine_calls - (IF last.op = "none" THEN 1 ELSE 0)

\* the second request of a batch is about to be dispatched in a later round
C23_Witness ==
    /\ pc = "exec" /\ idx = 2
    /\ stats.engine_calls >= 2
    /\ messages[Len(messages) - 1] = ModelTurn(<<>>, pending)
    /\ messages[Len(messages)].role = "tool"

\* the engine is about to be called for the first time for a prompt
FirstEngineCall == pc = "decide" /\ stats.engine_calls = 0

\* the number of entries e of the chat log from position i on
RECURSIVE CountLog(_, _)
CountLog(e, i) ==
    IF i > Len(log) THEN 0
    ELSE (IF log[i] = e THEN 1 ELSE 0) + CountLog(e, i + 1)

\* the prompts submitted since the application started or was cleared
PromptsInHistory == IF driver = "cli" THEN 1 ELSE CountLog("user", 1)

\* C24 as stated: at the first engine call made for a prompt the history
\* holds exactly one turn, the user's turn for that prompt, in the CLI and in
\* the TUI.
C24_HistoryIsThePromptAlone ==
    FirstEngineCall => messages = <<UserTurn(Prompt)>>

\* C24, amended: at the first engine call made for a prompt the history ends
\* with the user's turn for that prompt and holds one user turn for every
\* prompt since the start or the last clear; it is that turn alone in the
\* CLI and for the first such prompt of the TUI, while a later prompt of the
\* TUI is sent together with the turns of the prompts before it.
C24_HistoryEndsWithThePrompt ==
    FirstEngineCall
        => /\ messages # <<>>
           /\ messages[Len(messages)] = UserTurn(Prompt)
           /\ CountRole(messages, "user", 1) = PromptsInHistory
           /\ PromptsInHistory = 1 => messages = <<UserTurn(Prompt)>>
           /\ driver = "cli" => messages = <<UserTurn(Prompt)>>

\* the second prompt of a TUI conversation is about to be sent with the
\* turns of the first
C24_Witness ==
    /\ FirstEngineCall
    /\ driver = "tui"
    /\ PromptsInHistory = 2
    /\ Len(messages) > 2
    /\ messages[Len(messages)] = UserTurn(Prompt)

\* history g begins with history h
IsPrefix(h, g) == Len(h) <= Len(g) /\ SubSeq(g, 1, Len(h)) = h

\* C25: the history is append-only: in every step of a conversation (an
\* engine response, a tool result, an abort, a prompt or any other action of
\* the user in the TUI) the history before the step is a prefix of the
\* history after it.
C25_HistoryIsAppendOnly == [][IsPrefix(messages, messages')]_vars

\* C25 for every step but the clear action of the TUI
C25_AppendOnlyButForClear ==
    [][log' # <<"ready">> => IsPrefix(messages, messages')]_vars

----------------------------------------------------------------------------
(* Claims about requests whose arguments do not fit (SpecDispatch) *)

\* the request dispatched last names a registered tool
DispatchedRegistered == last.op = "call_function" /\ last.req.name \in functions

\* C26: for every request that names one of the four registered tools,
\* whatever its arguments are (a required one missing, one the operation
\* does not accept, no argument mapping at all), call_function does not
\* raise and returns a turn of role "tool" with a function response.
C26_MalformedRequestIsAnswered ==
    DispatchedRegistered
        => /\ ~last.raised
           /\ last.turn.role = "tool"
           /\ last.turn.function_response.present

\* C26 for the requests whose arguments bind to the operation's parameters
C26_WellFormedRequestIsAnswered ==
    (DispatchedRegistered /\ ~last.req.args.none
       /\ Binds(last.req.name, InjectWorkingDirectory(last.req.args.kv)))
        => C26_MalformedRequestIsAnswered

\* the consequence C26 draws for the loop: a dispatch of a registered tool
\* never aborts it
C26_LoopSurvivesMalformedRequest ==
    DispatchedRegistered => pc # "aborted"

----------------------------------------------------------------------------
(* Claims about what a dispatch leaves alone *)

\* a request of history h carries an argument named k
HasRequestWith(h, k) ==
    \E i \in 1..Len(h) : \E j \in 1..Len(h[i].function_calls) :
        /\ ~h[i].function_calls[j].args.none
        /\ k \in DOMAIN h[i].function_calls[j].args.kv

\* C27: call_function leaves the request it is given unchanged: after the
\* dispatch the request's argument mapping has the keys and values it had
\* before, the pending requests are the ones the engine sent, and no request
\* of an agent turn in the history has a "working_directory" argument.
C27_RequestIsLeftUnchanged ==
    /\ last.op = "call_function" => last.req_after = last.req
    /\ pc = "exec" => pending = messages[LastModelFrom(messages, Len(messages))].function_calls
    /\ pc = "exec" => pending \in EngineBatches
    /\ ~HasRequestWith(messages, "working_directory")

\* an operation has run for a request of the agent turn in the history
C27_Witness ==
    /\ last.op = "call_function" /\ last.executed
    /\ last.req.name \in functions
    /\ "working_directory" \notin DOMAIN last.req_after.args.kv
    /\ \E i \in 1..Len(messages) : \E j \in 1..Len(messages[i].function_calls) :
          messages[i].function_calls[j] = last.req

\* the last direct call returned an error text and started no process
FailedWithoutProcess ==
    /\ last.op \in FourOperations
    /\ IsErrorText(last.result)
    /\ ~last.spawned

\* C28: whenever one of the four operations returns an error result without
\* having started a process, the filesystem is exactly what it was before
\* the call: no directory created, no file created, truncated or modified.
C28_ErrorLeavesFilesystemAlone ==
    FailedWithoutProcess => fs = last.before

\* C28 for the errors returned before write_file creates directories or
\* opens the file: everything but a failure of open() or write() in
\* write_file
C28_EarlyErrorLeavesFilesystemAlone ==
    (FailedWithoutProcess
       /\ ~(last.op = "write_file" /\ last.env[1] \in {"fail_open", "fail_write"}))
        => fs = last.before

\* write_file returned an error after the parent directory was created
C28_DirectoryLeftBehind ==
    /\ FailedWithoutProcess /\ last.op = "write_file"
    /\ ~exists(last.before, dirname(LastTarget))
    /\ isdir(fs, dirname(LastTarget))
    /\ ~exists(fs, LastTarget)

\* write_file returned an error after the file was truncated
C28_FileTruncated ==
    /\ FailedWithoutProcess /\ last.op = "write_file"
    /\ isfile(last.before, LastTarget) /\ last.before[LastTarget].content # <<>>
    /\ fs[LastTarget].content = <<>>

----------------------------------------------------------------------------
(* Claims about the history the TUI keeps across prompts (SpecLoop) *)

\* C29: in the TUI, at every engine call of every prompt, also of a prompt
\* that follows one whose loop ended by a fault or by running out of
\* rounds, every agent turn of the history that requests tools is followed
\* by the tool turns of its requests.
C29_TuiPairingAcrossPrompts ==
    (driver = "tui" /\ pc = "decide") => Paired(messages)

\* C29 within the first prompt of a conversation
C29_TuiPairingFirstPrompt ==
    (driver = "tui" /\ pc = "decide" /\ PromptsInHistory = 1) => Paired(messages)

\* the second prompt is about to be sent with an agent turn that lacks
\* tool turns
C29_UnpairedHistorySent ==
    /\ driver = "tui" /\ FirstEngineCall
    /\ PromptsInHistory = 2
    /\ ~Paired(messages)

----------------------------------------------------------------------------
(* Dispatches over files whose text reads like a result (SpecEnvelope) *)

\* the texts the file f may hold: plain text, a text beginning with
\* "Error:", and the very texts get_file_content returns when open() fails
\* and when the path "n" is missing
EnvelopeContents == {<<"x">>, <<"Error:", " ", "x">>, ErrException, ErrNotRegular(<<"n">>)}

InitEnvelope ==
    /\ cwd \in Cwds
    /\ \E c \in EnvelopeContents : fs = InitFs(cwd, c)
    /\ last = NoCall
    /\ calls = 0
    /\ NoLoop

SpecEnvelope == InitEnvelope /\ [][NextDispatch]_vars

\* the get_file_content requests of the schema
ReadRequests == {Request("get_file_content", "file_path" :> p) : p \in FsPaths}

\* get_file_content for req in filesystem f and environment env succeeds:
\* the path is admitted, names a regular file, and open() and read() work
ReadSucceeds(f, env, req) ==
    /\ PathAdmitted(cwd, DispatchWorkingDir, req.args.kv["file_path"])
    /\ isfile(f, TargetFullPath(cwd, DispatchWorkingDir, req.args.kv["file_path"]))
    /\ env[1] \notin {"fail_open", "fail_read"}

\* the last step dispatched a get_file_content request of the schema
DispatchedRead ==
    /\ last.op = "call_function"
    /\ WithoutWorkingDirectory(last.req) \in ReadRequests
    /\ ~last.written.done

\* C30: a failed operation and a successful one never give the same tool
\* turn: the turn of the read dispatched last differs from the turn of every
\* other read of the same filesystem of which exactly one succeeds.
C30_ErrorAndSuccessDiffer ==
    DispatchedRead
        => \A req \in ReadRequests : \A env \in Envs("get_file_content") :
              (ReadSucceeds(last.before, env, req)
                  # ReadSucceeds(last.before, last.env, WithoutWorkingDirectory(last.req)))
                 => call_function(last.before, cwd, env[1], env[2], req).turn # last.turn

\* C30 for files whose text does not begin with "Error:"
C30_DifferUnlessTextLooksLikeError ==
    (\A q \in DOMAIN last.before :
        isfile(last.before, q) => ~IsErrorText(last.before[q].content))
        => C30_ErrorAndSuccessDiffer

\* a file was read whose text is the error text of a read that fails
C30_SuccessReadsLikeFailure ==
    /\ DispatchedRead
    /\ ReadSucceeds(last.before, last.env, WithoutWorkingDirectory(last.req))
    /\ last.result = ErrException
    /\ last.turn = call_function(last.before, cwd, "fail_open", NoProc,
                                 WithoutWorkingDirectory(last.req)).turn

=============================================================================
